---- MODULE Spec2Model ----
(***************************************************************************)
(* Model of the NeighborhoodLife scheduling core                           *)
(* (src/example_workspace/neighborhood_life): the zone event handlers of   *)
(* bootstrap.py, NeighborhoodDirector (director.py), ScheduleBuilder       *)
(* (schedules.py) and the helpers of util.py.                              *)
(*                                                                         *)
(* Python values are modelled as follows.  A dict is a sequence of         *)
(* <<key, value>> pairs in insertion order (CPython dicts iterate in       *)
(* insertion order).  A str that the code parses is a sequence of          *)
(* one-character strings.  Weights are integers (the arithmetic applied to *)
(* them is + and comparison with 0 only).  An operation that can raise     *)
(* returns a record [ok, val]; ok = FALSE stands for the raised exception. *)
(* None is the string "None" where the other values are strings and 0      *)
(* where they are object ids.                                              *)
(***************************************************************************)
EXTENDS Integers, Sequences, FiniteSets, TLC

\* ------------------------------------------------------------------ bounds

\* Number of zone-late-load events (Director constructions) explored.
MaxLoads == 2
\* Number of host timer handles the timer facility hands out.
MaxHandles == 6
\* Number of build_for_sims calls made with one config.
MaxBuilds == 2
\* Number of watcher threads the packaging tool starts.
MaxThreads == 2

\* ------------------------------------------------------- generic helpers

Max(a, b) == IF a >= b THEN a ELSE b

Min(a, b) == IF a <= b THEN a ELSE b

Range(s) == {s[i] : i \in 1..Len(s)}

Raise == [ok |-> FALSE, val |-> <<>>]

Return(v) == [ok |-> TRUE, val |-> v]

\* dict.get(key, default) on an insertion-ordered dict
DictHas(d, k) == \E i \in 1..Len(d) : d[i][1] = k

DictGet(d, k, default) ==
    IF DictHas(d, k) THEN d[CHOOSE i \in 1..Len(d) : d[i][1] = k][2] ELSE default

\* d[k] = v : an existing key keeps its position, a new key is appended
DictSet(d, k, v) ==
    IF DictHas(d, k)
    THEN [i \in 1..Len(d) |-> IF d[i][1] = k THEN <<k, v>> ELSE d[i]]
    ELSE Append(d, <<k, v>>)

DictKeys(d) == [i \in 1..Len(d) |-> d[i][1]]

\* ------------------------------------------------------------ util.py

DigitChars == <<"0", "1", "2", "3", "4", "5", "6", "7", "8", "9">>

IsDigit(c) == \E i \in 1..10 : DigitChars[i] = c

DigitVal(c) == (CHOOSE i \in 1..10 : DigitChars[i] = c) - 1

\* int(s) for s a str of decimal digits; anything else raises ValueError
RECURSIVE IntOfDigits(_)
IntOfDigits(s) ==
    IF s = <<>> THEN 0
    ELSE 10 * IntOfDigits(SubSeq(s, 1, Len(s) - 1)) + DigitVal(s[Len(s)])

int(s) ==
    IF s # <<>> /\ \A i \in 1..Len(s) : IsDigit(s[i])
    THEN Return(IntOfDigits(s))
    ELSE Raise

\* str.split(":")
RECURSIVE split(_)
split(s) ==
    IF \A i \in 1..Len(s) : s[i] # ":"
    THEN <<s>>
    ELSE LET p == CHOOSE i \in 1..Len(s) :
                      s[i] = ":" /\ \A j \in 1..(i - 1) : s[j] # ":"
         IN  <<SubSeq(s, 1, p - 1)>> \o split(SubSeq(s, p + 1, Len(s)))

\* hh, mm = hhmm.split(":"); return int(hh) * 60 + int(mm)
time_str_to_minutes(hhmm) ==
    LET parts == split(hhmm)
    IN  IF Len(parts) # 2 THEN Raise
        ELSE IF ~int(parts[1]).ok \/ ~int(parts[2]).ok THEN Raise
        ELSE Return(int(parts[1]).val * 60 + int(parts[2]).val)

\* day in (6, 7)
is_weekend(day) == day \in {6, 7}

\* int(now.hour()) * 60 + int(now.minute()), for the absolute sim minute t
get_today_minutes(t) == ((t \div 60) % 24) * 60 + (t % 60)

\* the filter with "if v >= 0.0"
RECURSIVE PositiveItems_keeps_zero(_)
PositiveItems_keeps_zero(weights) ==
    IF weights = <<>> THEN <<>>
    ELSE (IF Head(weights)[2] >= 0 THEN <<Head(weights)>> ELSE <<>>)
         \o PositiveItems_keeps_zero(Tail(weights))

\* items = [(k, max(v, 0.0)) for k, v in weights.items() if v > 0.0]
RECURSIVE PositiveItems(_)
PositiveItems(weights) ==
    IF weights = <<>> THEN <<>>
    ELSE (IF Head(weights)[2] > 0
          THEN << <<Head(weights)[1], Max(Head(weights)[2], 0)>> >>
          ELSE <<>>) \o PositiveItems(Tail(weights))

RECURSIVE SumWeights(_)
SumWeights(items) ==
    IF items = <<>> THEN 0 ELSE Head(items)[2] + SumWeights(Tail(items))

\* the loop "for k, v in items: if upto + v >= r: return k; upto += v",
\* then "return items[-1][0]"
RECURSIVE Walk(_, _, _)
Walk(items, upto, r) ==
    IF Len(items) = 1 THEN items[1][1]
    ELSE IF upto + items[1][2] >= r THEN items[1][1]
    ELSE Walk(Tail(items), upto + items[1][2], r)

\* weighted_choice whose fallback takes the first key instead of
\* random.choice over all keys
weighted_choice_fallback_first(weights) ==
    LET items == PositiveItems(weights)
    IN  IF items = <<>>
        THEN IF weights = <<>> THEN {Raise} ELSE {Return(weights[1][1])}
        ELSE {Return(Walk(items, 0, r)) : r \in 0..SumWeights(items)}

\* weighted_choice: the set of outcomes over every random draw.  The draw
\* r = random.uniform(0, total) is taken from the integer points of
\* [0, total]; random.choice of an empty list raises IndexError.
weighted_choice(weights) ==
    LET items == PositiveItems(weights)
    IN  IF items = <<>>
        THEN IF weights = <<>> THEN {Raise}
             ELSE {Return(k) : k \in Range(DictKeys(weights))}
        ELSE {Return(Walk(items, 0, r)) : r \in 0..SumWeights(items)}

\* -------------------------------------------------------- configuration

\* The "HH:MM" strings used by the configurations below.
T0700 == <<"0", "7", ":", "0", "0">>

T0800 == <<"0", "8", ":", "0", "0">>

\* The contents a config.json can have (NLConfig.load reads whatever JSON it
\* finds and validates nothing).
\*   1  one block at 08:00 lasting 30 minutes, one participant
\*   2  two participants, one block at 07:00, all three bias tables
\*   3  two blocks at 08:00: one of duration 0, one whose duration range is
\*      negative
\*   4  a block whose action table is empty, with a trait table that gives
\*      an ACTIVE participant an action (the build raises for the others)
ConfigFiles == <<
    [participant_count |-> 1,
     time_blocks |-> << [start |-> T0800, duration_min |-> <<30, 30>>,
                         actions |-> << <<"WALK", 1>> >>] >>,
     trait_bias |-> <<>>, weather_bias |-> <<>>, weekend_bias |-> <<>>,
     news_enabled |-> TRUE, debug_logging |-> FALSE],
    [participant_count |-> 2,
     time_blocks |-> << [start |-> T0700, duration_min |-> <<60, 60>>,
                         actions |-> << <<"JOG", 1>> >>] >>,
     trait_bias |-> << <<"ACTIVE", << <<"JOG", 5>> >> >> >>,
     weather_bias |-> << <<"Rain", << <<"JOG", -6>> >> >> >>,
     weekend_bias |-> << <<"JOG", 1>> >>,
     news_enabled |-> FALSE, debug_logging |-> FALSE],
    [participant_count |-> 1,
     time_blocks |-> << [start |-> T0800, duration_min |-> <<0, 0>>,
                         actions |-> << <<"CAFE_IDLE", 1>> >>],
                        [start |-> T0800, duration_min |-> <<-30, -30>>,
                         actions |-> << <<"WALK", 1>> >>] >>,
     trait_bias |-> <<>>, weather_bias |-> <<>>, weekend_bias |-> <<>>,
     news_enabled |-> TRUE, debug_logging |-> FALSE],
    [participant_count |-> 1,
     time_blocks |-> << [start |-> T0800, duration_min |-> <<30, 30>>,
                         actions |-> <<>>] >>,
     trait_bias |-> << <<"ACTIVE", << <<"WALK", 1>> >> >> >>,
     weather_bias |-> <<>>, weekend_bias |-> <<>>,
     news_enabled |-> TRUE, debug_logging |-> FALSE] >>

\* "Fallback defaults if not found"
DefaultConfig ==
    [participant_count |-> 8, time_blocks |-> <<>>, trait_bias |-> <<>>,
     weather_bias |-> <<>>, weekend_bias |-> <<>>,
     news_enabled |-> TRUE, debug_logging |-> TRUE]

\* The config source found on disk: 0 is "no candidate path exists".
ConfigSources == 0..Len(ConfigFiles)

\* NLConfig.load without "if cls._cached is not None: return cls._cached"
load_rereads(cached, source) ==
    IF source = 0 THEN DefaultConfig ELSE ConfigFiles[source]

\* NLConfig.load: the cached instance when there is one, else the file read
\* (or the defaults).  The result is also what _cached becomes.
load(cached, source) ==
    IF cached.ok THEN cached.val
    ELSE IF source = 0 THEN DefaultConfig
    ELSE ConfigFiles[source]

\* ------------------------------------------------------- environment

\* sim ids of the sim_info_manager
Sims == {1, 2}

\* CommonTraitUtils.get_traits(sim_info), as trait names
TraitsOf(sim) == IF sim = 1 THEN {"ACTIVE"} ELSE {}

\* CommonWeatherType names as the words between "_"; <<>> is "no weather
\* service" (None).
WeatherTypes == {<<>>, <<"SUNNY">>, <<"HEAVY", "RAIN">>}

\* time_service.sim_now.day_of_week()
Days == {1, 6}

\* ------------------------------------------------------- schedules.py

\* the loop with "weights[act] = delta"
RECURSIVE AddDeltas_overwrite(_, _)
AddDeltas_overwrite(weights, adds) ==
    IF adds = <<>> THEN weights
    ELSE AddDeltas_overwrite(DictSet(weights, Head(adds)[1], Head(adds)[2]),
                             Tail(adds))

\* for act, delta in adds.items(): weights[act] = weights.get(act, 0.0) + delta
RECURSIVE AddDeltas(_, _)
AddDeltas(weights, adds) ==
    IF adds = <<>> THEN weights
    ELSE AddDeltas(DictSet(weights, Head(adds)[1],
                           DictGet(weights, Head(adds)[1], 0) + Head(adds)[2]),
                   Tail(adds))

RECURSIVE ApplyTraits(_, _, _)
ApplyTraits(names, trait_bias, weights) ==
    IF trait_bias = <<>> THEN weights
    ELSE ApplyTraits(names, Tail(trait_bias),
                     IF Head(trait_bias)[1] \in names
                     THEN AddDeltas(weights, Head(trait_bias)[2])
                     ELSE weights)

apply_trait_bias(c, sim, weights) == ApplyTraits(TraitsOf(sim), c.trait_bias, weights)

\* 'Rain' if 'RAIN' in name else 'Snow' if 'SNOW' in name else None
WeatherKey(wtype) ==
    IF "RAIN" \in Range(wtype) THEN "Rain"
    ELSE IF "SNOW" \in Range(wtype) THEN "Snow"
    ELSE "None"

apply_weather_bias(c, wtype, weights) ==
    IF wtype = <<>> THEN weights
    ELSE LET adds == DictGet(c.weather_bias, WeatherKey(wtype), <<>>)
         IN  IF adds = <<>> THEN weights ELSE AddDeltas(weights, adds)

apply_weekend_bias(c, weights) == AddDeltas(weights, c.weekend_bias)

derive_venue_tag(action) ==
    CASE action = "CAFE_IDLE" -> "cafe"
      [] action = "LIB_IDLE" -> "library"
      [] action = "GYM_IDLE" -> "gym"
      [] action = "DINING_IDLE" -> "dining"
      [] action = "PARK_WALK" -> "park"
      [] action \in {"NEIGHBOR_VISIT", "HOME_IDLE"} -> "residential"
      [] OTHER -> "None"

\* random.randint(a, b): every integer of [a, b]; ValueError when a > b
randint(a, b) == IF a > b THEN {Raise} ELSE {Return(n) : n \in a..b}

\* The weights when _apply_weekend_bias is called without "if is_weekend()"
BiasedWeights_always_weekend(c, sim, tmpl, wtype, weekend) ==
    apply_weekend_bias(c,
        apply_weather_bias(c, wtype, apply_trait_bias(c, sim, tmpl.actions)))

\* The weights handed to weighted_choice for one template and participant.
BiasedWeights(c, sim, tmpl, wtype, weekend) ==
    LET w0 == tmpl.actions
        w1 == apply_trait_bias(c, sim, w0)
        w2 == apply_weather_bias(c, wtype, w1)
    IN  IF weekend THEN apply_weekend_bias(c, w2) ELSE w2

\* One pass of the loop body of build_for_sims: every TimeBlock it can
\* append, or Raise.
BuildBlock(c, sim, tmpl, wtype, weekend) ==
    LET start == time_str_to_minutes(tmpl.start)
        durs == randint(tmpl.duration_min[1], tmpl.duration_min[2])
        acts == weighted_choice(BiasedWeights(c, sim, tmpl, wtype, weekend))
    IN  IF ~start.ok THEN {Raise}
        ELSE {IF d.ok /\ a.ok
              THEN Return([start_min |-> start.val, duration_min |-> d.val,
                           action |-> a.val,
                           venue_tag |-> derive_venue_tag(a.val)])
              ELSE Raise : d \in durs, a \in acts}

RECURSIVE BuildBlocks(_, _, _, _, _)
BuildBlocks(c, sim, tmpls, wtype, weekend) ==
    IF tmpls = <<>> THEN {Return(<<>>)}
    ELSE {IF b.ok /\ rest.ok THEN Return(<<b.val>> \o rest.val) ELSE Raise :
              b \in BuildBlock(c, sim, Head(tmpls), wtype, weekend),
              rest \in BuildBlocks(c, sim, Tail(tmpls), wtype, weekend)}

\* build_for_sims: every schedules dict it can return (as the sequence of
\* its DailySchedule values in insertion order), or Raise.
RECURSIVE build_for_sims(_, _, _, _)
build_for_sims(c, sim_infos, wtype, weekend) ==
    IF sim_infos = <<>> THEN {Return(<<>>)}
    ELSE {IF bs.ok /\ rest.ok
          THEN Return(<<[sim_id |-> Head(sim_infos), blocks |-> bs.val]>> \o rest.val)
          ELSE Raise :
              bs \in BuildBlocks(c, Head(sim_infos), c.time_blocks, wtype, weekend),
              rest \in build_for_sims(c, Tail(sim_infos), wtype, weekend)}

\* select_participant_sims: the candidates in any shuffled order, cut to
\* max(1, count).
Perms(S) ==
    {p \in [1..Cardinality(S) -> S] : \A i, j \in 1..Cardinality(S) : p[i] = p[j] => i = j}

select_participant_sims(candidates, count) ==
    {SubSeq(p, 1, Min(Len(p), Max(1, count))) : p \in Perms(candidates)}

\* Every config NLConfig.load can return, and every participant list
\* select_participant_sims can return for one of them.
Configs == {DefaultConfig} \cup Range(ConfigFiles)

SimLists ==
    UNION {select_participant_sims(cands, c.participant_count) :
               cands \in SUBSET Sims, c \in Configs}

\* build_for_sims tabulated over its inputs (evaluated once)
Built ==
    [c \in Configs, sim_infos \in SimLists, wtype \in WeatherTypes, weekend \in BOOLEAN |->
        build_for_sims(c, sim_infos, wtype, weekend)]

\* ------------------------------------------------------------- state

VARIABLES
    cached,        \* NLConfig._cached: Raise-shaped record for None, else Return(cfg)
    configSource,  \* which config.json is on disk (0: none)
    singleton,     \* bootstrap._DIRECTOR_SINGLETON: 0 for None, else the Director's id
    schedules,     \* self._schedules of the referenced Director (dict values, in order)
    alarms,        \* self._alarms of the referenced Director (list of handles)
    timers,        \* every timer ever registered with the host, indexed by handle
    pending,       \* the handles the host timer facility still holds
    clock,         \* the absolute simulated minute (moved on by the timers that fire)
    loads,         \* zone-late-load events handled = Directors constructed
    cancels,       \* history: per handle, the number of cancel_alarm calls made on it
    runs,          \* history: per handle, its handler runs: [resolved, calls]
    armed,         \* history: the loads whose start_for_today returned
    stopped,       \* history: the loads followed by a stop_all of their Director
    pc,            \* build_for_sims call: "idle", "call", "loop", "returned", "raised"
    bcfg,          \* self.cfg of the ScheduleBuilder
    bsims,         \* the sim_infos argument (sim ids)
    env,           \* the environment: [weather, day] as the services report them now
    bwtype,        \* the local wtype
    bsched,        \* the local schedules dict (its values, in insertion order)
    bblocks,       \* the local blocks list of the participant being built
    bidx,          \* position of the participant being built in sim_infos
    queries,       \* history: environment queries made by the call, per kind
    trace,         \* history: one record per pass of the inner loop body
    wrunning,      \* ts4script_tool_gui: App.watch_state.running
    wthreads,      \* the watcher threads started so far: [pc, last_sig]
    tree,          \* the signature of the watched workspace tree
    dst            \* the signature packed into the output file (0: none)

\* The Director and bootstrap state, and the state of a build_for_sims call
dvars == <<cached, configSource, singleton, schedules, alarms, timers, pending,
           clock, loads, cancels, runs, armed, stopped>>

bvars == <<pc, bcfg, bsims, env, bwtype, bsched, bblocks, bidx, queries, trace>>

wvars == <<wrunning, wthreads, tree, dst>>

vars == <<dvars, bvars, wvars>>

\* The sim minute at which the process starts (07:00).
StartClock == 7 * 60

\* ------------------------------------------------------ host timer facility

\* CommonAlarmUtils.set_alarm(create_time_span(minutes=span), callback,
\*                            repeating=..., data=...)
\* The timer falls due span minutes after now.  tag records the activation,
\* the Director and the block position the call was made for.
set_alarm(now, span, callback, repeating, data, tag) ==
    [span |-> span, due |-> now + span, callback |-> callback,
     repeating |-> repeating, data |-> data, tag |-> tag]

\* CommonAlarmUtils.cancel_alarm(handle) on host state [pending, cancels];
\* cancelling a handle the host no longer holds is a no-op.
cancel_alarm(host, handle) ==
    [pending |-> host.pending \ {handle},
     cancels |-> [host.cancels EXCEPT ![handle] = @ + 1]]

\* The host dispatches the pending timer that falls due first, ties in
\* insertion (handle) order.
NextDue(tm, pend) ==
    CHOOSE h \in pend :
        \A g \in pend : tm[h].due < tm[g].due \/ (tm[h].due = tm[g].due /\ h <= g)

\* A one-shot timer leaves the host when it fires; a repeating one stays.
AfterFire(tm, pend, h) == IF tm[h].repeating THEN pend ELSE pend \ {h}

\* ------------------------------------------------------------ director.py

\* The loop body without the max(0, ...)
BlockAlarms_no_clamp(now, now_min, sim_id, block, tag) ==
    LET delta == block.start_min - now_min
    IN  << set_alarm(now, delta, "_on_block_start", FALSE, <<sim_id, block>>, tag),
           set_alarm(now, delta + block.duration_min, "_on_block_end", FALSE,
                     <<sim_id, block>>, tag) >>

\* The loop body with repeating=True
BlockAlarms_repeating(now, now_min, sim_id, block, tag) ==
    LET delta == Max(0, block.start_min - now_min)
    IN  << set_alarm(now, delta, "_on_block_start", TRUE, <<sim_id, block>>, tag),
           set_alarm(now, delta + block.duration_min, "_on_block_end", TRUE,
                     <<sim_id, block>>, tag) >>

\* The body of the inner loop of _schedule_alarms for one block: the two
\* timers it registers, start first.
BlockAlarms(now, now_min, sim_id, block, tag) ==
    LET delta == Max(0, block.start_min - now_min)
    IN  << set_alarm(now, delta, "_on_block_start", FALSE, <<sim_id, block>>, tag),
           set_alarm(now, delta + block.duration_min, "_on_block_end", FALSE,
                     <<sim_id, block>>, tag) >>

RECURSIVE ScheduleAlarms(_, _, _, _, _, _)
\* for block in ds.blocks (from position i on)
ScheduleAlarms(now, now_min, ds, i, act, owner) ==
    IF i > Len(ds.blocks) THEN <<>>
    ELSE BlockAlarms(now, now_min, ds.sim_id, ds.blocks[i],
                     [act |-> act, owner |-> owner, idx |-> i])
         \o ScheduleAlarms(now, now_min, ds, i + 1, act, owner)

RECURSIVE schedule_alarms(_, _, _, _)
\* _schedule_alarms: the timers registered, in registration order
schedule_alarms(now, scheds, act, owner) ==
    IF scheds = <<>> THEN <<>>
    ELSE ScheduleAlarms(now, get_today_minutes(now), Head(scheds), 1, act, owner)
         \o schedule_alarms(now, Tail(scheds), act, owner)

RECURSIVE CancelEach(_, _)
\* for alarm_handle in list(self._alarms): cancel_alarm(alarm_handle)
CancelEach(host, handles) ==
    IF handles = <<>> THEN host
    ELSE CancelEach(cancel_alarm(host, Head(handles)), Tail(handles))

\* stop_all without the cancel loop
stop_all_no_cancel(self, host) ==
    [self |-> [schedules |-> <<>>, alarms |-> <<>>], host |-> host]

\* stop_all that cancels all but the last handle
stop_all_skips_last(self, host) ==
    [self |-> [schedules |-> <<>>, alarms |-> <<>>],
     host |-> CancelEach(host, SubSeq(self.alarms, 1, Len(self.alarms) - 1))]

\* stop_all without self._alarms.clear()
stop_all_keeps_handles(self, host) ==
    [self |-> [schedules |-> <<>>, alarms |-> self.alarms],
     host |-> CancelEach(host, self.alarms)]

\* stop_all on Director fields self = [schedules, alarms] and host state
stop_all(self, host) ==
    [self |-> [schedules |-> <<>>, alarms |-> <<>>],
     host |-> CancelEach(host, self.alarms)]

\* start_for_today whose _schedule_alarms appends only the start handles
start_for_today_start_handles_only(self, built, first, n) ==
    [schedules |-> built,
     alarms |-> self.alarms \o [i \in 1..(n \div 2) |-> first + 2 * (i - 1)]]

\* start_for_today that empties self._schedules before it builds
start_for_today_raised_clears(self) ==
    [schedules |-> <<>>, alarms |-> self.alarms]

\* start_for_today left by an exception of select_participant_sims or
\* build_for_sims: the assignment to self._schedules is not made and
\* _schedule_alarms is not called.
start_for_today_raised(self) == self

\* start_for_today once the build returned built: self._schedules is
\* replaced, the new handles are appended to self._alarms.
start_for_today(self, built, first, n) ==
    [schedules |-> built,
     alarms |-> self.alarms \o [i \in 1..n |-> first + i - 1]]

\* NewsCenter.post_start / post_end: shows a notification when enabled
post(c, what) == IF c.news_enabled THEN <<what, "show">> ELSE <<what>>

\* _on_block_start with the two calls swapped
on_block_start_execute_first(c, resolved) ==
    IF ~resolved THEN <<>> ELSE <<"execute">> \o post(c, "post_start")

\* _on_block_start without the "if sim_info is None: return"
on_block_start_unguarded(c, resolved) == post(c, "post_start") \o <<"execute">>

\* _on_block_start: the collaborator calls of one run, in order
on_block_start(c, resolved) ==
    IF ~resolved THEN <<>> ELSE post(c, "post_start") \o <<"execute">>

\* _on_block_end
on_block_end(c, resolved) ==
    IF ~resolved THEN <<>> ELSE post(c, "post_end") \o <<"cleanup">>

\* ------------------------------------------------------------ bootstrap.py

\* ensure_singleton that always takes the new instance
ensure_singleton_takes_new(old, new) == new

ensure_singleton(old, new) == IF old # 0 THEN old ELSE new

Self == [schedules |-> schedules, alarms |-> alarms]

Host == [pending |-> pending, cancels |-> cancels]

\* A freshly constructed Director
NewDirector == [schedules |-> <<>>, alarms |-> <<>>]

Init ==
    /\ cached = Raise
    /\ configSource \in ConfigSources
    /\ singleton = 0
    /\ schedules = <<>>
    /\ alarms = <<>>
    /\ timers = <<>>
    /\ pending = {}
    /\ clock = StartClock
    /\ loads = 0
    /\ cancels = <<>>
    /\ runs = <<>>
    /\ armed = {}
    /\ stopped = {}
    /\ pc = "idle"
    /\ bcfg = DefaultConfig
    /\ bsims = <<>>
    /\ env = [weather |-> <<>>, day |-> 1]
    /\ bwtype = <<>>
    /\ bsched = <<>>
    /\ bblocks = <<>>
    /\ bidx = 0
    /\ queries = [weather |-> 0, day |-> 0, errors |-> 0, calls |-> 0]
    /\ trace = <<>>
    /\ wrunning = FALSE
    /\ wthreads = <<>>
    /\ tree = 1
    /\ dst = 0

\* _on_zone_late_load: load the config, construct a Director, keep the old
\* singleton when there is one, start_for_today on the singleton.
ZoneLateLoad ==
    /\ loads < MaxLoads
    /\ LET c == load(cached, configSource)
           id == loads + 1
           target == ensure_singleton(singleton, id)
           self == IF target = singleton THEN Self ELSE NewDirector
       IN  \E cands \in SUBSET Sims, wtype \in WeatherTypes, day \in Days :
           \E sim_infos \in select_participant_sims(cands, c.participant_count) :
           \E built \in Built[c, sim_infos, wtype, is_weekend(day)] :
              /\ cached' = Return(c)
              /\ singleton' = target
              /\ loads' = id
              /\ IF built.ok
                 THEN LET new == schedule_alarms(clock, built.val, id, target)
                          after == start_for_today(self, built.val,
                                                   Len(timers) + 1, Len(new))
                      IN  /\ Len(timers) + Len(new) <= MaxHandles
                          /\ schedules' = after.schedules
                          /\ alarms' = after.alarms
                          /\ timers' = timers \o new
                          /\ pending' = pending \cup
                                 ((Len(timers) + 1)..(Len(timers) + Len(new)))
                          /\ cancels' = cancels \o [i \in 1..Len(new) |-> 0]
                          /\ runs' = runs \o [i \in 1..Len(new) |-> <<>>]
                          /\ armed' = armed \cup {id}
                 ELSE \* the build raised: the handler is left by the exception
                      /\ schedules' = start_for_today_raised(self).schedules
                      /\ alarms' = start_for_today_raised(self).alarms
                      /\ UNCHANGED <<timers, pending, cancels, runs, armed>>
    /\ UNCHANGED <<configSource, clock, stopped, bvars, wvars>>

\* The loads whose timers were registered for Director d
LoadsOf(d) == {timers[h].tag.act : h \in {g \in 1..Len(timers) : timers[g].tag.owner = d}}

\* stop_all called on the referenced Director
StopAll ==
    /\ singleton # 0
    /\ LET r == stop_all(Self, Host)
       IN  /\ schedules' = r.self.schedules
           /\ alarms' = r.self.alarms
           /\ pending' = r.host.pending
           /\ cancels' = r.host.cancels
    /\ stopped' = stopped \cup LoadsOf(singleton)
    /\ UNCHANGED <<cached, configSource, singleton, timers, clock, loads, runs, armed, bvars, wvars>>

\* _on_zone_unload
ZoneUnload ==
    /\ IF singleton # 0
       THEN LET r == stop_all(Self, Host)
            IN  /\ pending' = r.host.pending
                /\ cancels' = r.host.cancels
                /\ stopped' = stopped \cup LoadsOf(singleton)
                \* the stopped Director is dropped with the reference
                /\ schedules' = <<>>
                /\ alarms' = <<>>
                /\ singleton' = 0
       ELSE UNCHANGED <<pending, cancels, stopped, schedules, alarms, singleton>>
    /\ UNCHANGED <<cached, configSource, timers, clock, loads, runs, armed, bvars, wvars>>

\* The host fires the next due timer: _on_block_start or _on_block_end runs
\* to completion.  resolved: CommonSimUtils.get_sim_info(sim_id) is not None.
FireAlarm ==
    /\ pending # {}
    /\ LET h == NextDue(timers, pending)
           c == cached.val
       IN  \E resolved \in BOOLEAN :
              /\ clock' = Max(clock, timers[h].due)
              /\ pending' = AfterFire(timers, pending, h)
              /\ runs' = [runs EXCEPT ![h] = Append(@,
                            [resolved |-> resolved,
                             calls |-> IF timers[h].callback = "_on_block_start"
                                       THEN on_block_start(c, resolved)
                                       ELSE on_block_end(c, resolved)])]
    /\ UNCHANGED <<cached, configSource, singleton, schedules, alarms, timers,
                   loads, cancels, armed, stopped, bvars, wvars>>

Next == ZoneLateLoad \/ StopAll \/ ZoneUnload \/ FireAlarm

Spec == Init /\ [][Next]_vars

\* The host timer facility keeps dispatching due timers.
FairSpec == Spec /\ WF_vars(FireAlarm)

\* The config.json on disk is replaced, removed or created between two
\* zone events.
SourceChange ==
    /\ configSource' \in ConfigSources \ {configSource}
    /\ UNCHANGED <<cached, singleton, schedules, alarms, timers, pending, clock,
                   loads, cancels, runs, armed, stopped, bvars, wvars>>

\* The zone events with a config source that changes between them
LoadNext == ZoneLateLoad \/ ZoneUnload \/ SourceChange

LoadSpec == Init /\ [][LoadNext]_vars

\* ------------------------------------------- one build_for_sims call

T1830 == <<"1", "8", ":", "3", "0">>

T2430 == <<"2", "4", ":", "3", "0">>

\* The configs a ScheduleBuilder is constructed with in the calls explored
\* below (any config.json content: nothing validates it).
\*   1  two blocks; the first has two actions and all three bias tables
\*      (the trait table is ACTIVE: JOG +5), the weather table inserts READ,
\*      the weekend table leaves PARK_WALK as the only positive action
\*   2  a start string past the end of the day and a duration range <= 0
\*   3  an empty action table, with a trait table that inserts JOG
\*   4  a weather table that drives every action to a weight <= 0
BuildConfigs == {
    [participant_count |-> 2,
     time_blocks |-> << [start |-> T0800, duration_min |-> <<30, 31>>,
                         actions |-> << <<"JOG", 1>>, <<"WALK", 1>> >>],
                        [start |-> T1830, duration_min |-> <<60, 60>>,
                         actions |-> << <<"CAFE_IDLE", 2>> >>] >>,
     trait_bias |-> << <<"ACTIVE", << <<"JOG", 5>> >> >> >>,
     weather_bias |-> << <<"Rain", << <<"JOG", -1>>, <<"READ", 2>> >> >> >>,
     weekend_bias |-> << <<"JOG", -6>>, <<"WALK", -1>>, <<"READ", -2>>,
                         <<"CAFE_IDLE", -2>>, <<"PARK_WALK", 1>> >>,
     news_enabled |-> TRUE, debug_logging |-> FALSE],
    [participant_count |-> 2,
     time_blocks |-> << [start |-> T2430, duration_min |-> <<-1, 0>>,
                         actions |-> << <<"WALK", 1>> >>] >>,
     trait_bias |-> <<>>, weather_bias |-> <<>>, weekend_bias |-> <<>>,
     news_enabled |-> TRUE, debug_logging |-> FALSE],
    [participant_count |-> 2,
     time_blocks |-> << [start |-> T0800, duration_min |-> <<30, 30>>,
                         actions |-> <<>>] >>,
     trait_bias |-> << <<"ACTIVE", << <<"JOG", 1>> >> >> >>,
     weather_bias |-> <<>>, weekend_bias |-> <<>>,
     news_enabled |-> TRUE, debug_logging |-> FALSE],
    [participant_count |-> 2,
     time_blocks |-> << [start |-> T0800, duration_min |-> <<30, 30>>,
                         actions |-> << <<"JOG", 1>>, <<"WALK", 1>> >>] >>,
     trait_bias |-> <<>>,
     weather_bias |-> << <<"Rain", << <<"JOG", -3>>, <<"WALK", -1>> >> >> >>,
     weekend_bias |-> <<>>,
     news_enabled |-> TRUE, debug_logging |-> FALSE] }

\* What the weather service and the time service can report
Envs == [weather : WeatherTypes, day : Days]

\* The participant lists build_for_sims is called with
ParticipantLists == UNION {select_participant_sims(cands, 2) : cands \in SUBSET Sims}

\* ScheduleBuilder(cfg).build_for_sims(sim_infos) is about to be called
BuildInit ==
    /\ cached = Raise
    /\ configSource = 0
    /\ singleton = 0
    /\ schedules = <<>>
    /\ alarms = <<>>
    /\ timers = <<>>
    /\ pending = {}
    /\ clock = StartClock
    /\ loads = 0
    /\ cancels = <<>>
    /\ runs = <<>>
    /\ armed = {}
    /\ stopped = {}
    /\ pc = "call"
    /\ bcfg \in BuildConfigs
    /\ bsims \in ParticipantLists
    /\ env \in Envs
    /\ bwtype = <<>>
    /\ bsched = <<>>
    /\ bblocks = <<>>
    /\ bidx = 0
    /\ queries = [weather |-> 0, day |-> 0, errors |-> 0, calls |-> 1]
    /\ trace = <<>>
    /\ wrunning = FALSE
    /\ wthreads = <<>>
    /\ tree = 1
    /\ dst = 0

\* The config after a pass in which the weights of template j were biased,
\* when the pass biases the template's own table (no dict(...) copy)
ConfigAfterPass_aliased(c, j, weights) ==
    [c EXCEPT !.time_blocks[j].actions = weights]

\* The config after a pass in which the weights of template j were biased:
\* action_weights = dict(block['actions']) is a copy, the _apply_* methods
\* write to the copy and only read cfg.trait_bias, cfg.weather_bias and
\* cfg.weekend_bias.
ConfigAfterPass(c, j, weights) == c

\* What a lookup in a game service can do: hand back v, or raise
Lookup(v) == {Return(v), Raise}

\* schedules = {}; wtype = self._get_weather_type().  Nothing catches an
\* exception of the weather service.
BuildEnter ==
    /\ pc = "call"
    /\ \E looked \in Lookup(env.weather) :
          /\ pc' = IF looked.ok THEN "loop" ELSE "raised"
          /\ bwtype' = IF looked.ok THEN looked.val ELSE bwtype
          /\ queries' = [queries EXCEPT !.weather = @ + 1,
                                        !.errors = IF looked.ok THEN @ ELSE @ + 1]
    /\ bsched' = <<>>
    /\ bblocks' = <<>>
    /\ bidx' = 1
    /\ UNCHANGED <<dvars, wvars, bcfg, bsims, env, trace>>

\* One pass of the body of "for block in self.cfg.time_blocks".  The trait
\* lookup of _apply_trait_bias (CommonTraitUtils.get_traits) is made once the
\* start and the duration were computed, and nothing catches its exception;
\* is_weekend() is called after it.
BuildStep ==
    /\ pc = "loop"
    /\ bidx <= Len(bsims)
    /\ Len(bblocks) < Len(bcfg.time_blocks)
    /\ LET sim == bsims[bidx]
           j == Len(bblocks) + 1
           tmpl == bcfg.time_blocks[j]
           reached == /\ time_str_to_minutes(tmpl.start).ok
                      /\ Raise \notin randint(tmpl.duration_min[1], tmpl.duration_min[2])
           weekend == is_weekend(env.day)
       IN  \E looked \in (IF reached THEN Lookup(TraitsOf(sim)) ELSE {Raise}) :
           \E b \in (IF reached /\ ~looked.ok THEN {Raise}
                     ELSE BuildBlock(bcfg, sim, tmpl, bwtype, weekend)) :
           LET asked == reached /\ looked.ok
           IN
              /\ queries' = [queries EXCEPT
                                !.day = IF asked THEN @ + 1 ELSE @,
                                !.errors = IF reached /\ ~looked.ok THEN @ + 1 ELSE @]
              /\ trace' = Append(trace,
                     [sim |-> sim, tmpl |-> j, asked |-> asked,
                      wtype |-> bwtype, day |-> env.day, weekend |-> weekend,
                      weights |-> IF asked
                                  THEN BiasedWeights(bcfg, sim, tmpl, bwtype, weekend)
                                  ELSE <<>>,
                      block |-> b])
              /\ bcfg' = IF asked
                         THEN ConfigAfterPass(bcfg, j,
                                  BiasedWeights(bcfg, sim, tmpl, bwtype, weekend))
                         ELSE bcfg
              /\ IF b.ok
                 THEN bblocks' = Append(bblocks, b.val) /\ pc' = pc
                 ELSE bblocks' = bblocks /\ pc' = "raised"
    /\ UNCHANGED <<dvars, wvars, bsims, env, bwtype, bsched, bidx>>

\* schedules[sid] = DailySchedule(sim_id=sid, blocks=blocks)
BuildStore ==
    /\ pc = "loop"
    /\ bidx <= Len(bsims)
    /\ Len(bblocks) = Len(bcfg.time_blocks)
    /\ bsched' = Append(bsched, [sim_id |-> bsims[bidx], blocks |-> bblocks])
    /\ bblocks' = <<>>
    /\ bidx' = bidx + 1
    /\ UNCHANGED <<dvars, wvars, pc, bcfg, bsims, env, bwtype, queries, trace>>

\* return schedules
BuildReturn ==
    /\ pc = "loop"
    /\ bidx > Len(bsims)
    /\ pc' = "returned"
    /\ UNCHANGED <<dvars, wvars, bcfg, bsims, env, bwtype, bsched, bblocks, bidx, queries, trace>>

\* The weather or the sim day changes while the call is in progress
EnvChange ==
    /\ pc \in {"call", "loop"}
    /\ env' \in Envs \ {env}
    /\ UNCHANGED <<dvars, wvars, pc, bcfg, bsims, bwtype, bsched, bblocks, bidx, queries, trace>>

\* A later build_for_sims call with the same config (start_for_today makes
\* a ScheduleBuilder(self.cfg) per call; the config is the cached one)
BuildAgain ==
    /\ pc \in {"returned", "raised"}
    /\ queries.calls < MaxBuilds
    /\ pc' = "call"
    /\ bsims' \in ParticipantLists
    /\ bwtype' = <<>>
    /\ bsched' = <<>>
    /\ bblocks' = <<>>
    /\ bidx' = 0
    /\ queries' = [weather |-> 0, day |-> 0, errors |-> 0, calls |-> queries.calls + 1]
    /\ trace' = <<>>
    /\ UNCHANGED <<dvars, wvars, bcfg, env>>

BuildNext ==
    BuildEnter \/ BuildStep \/ BuildStore \/ BuildReturn \/ EnvChange \/ BuildAgain

BuildSpec == BuildInit /\ [][BuildNext]_vars

\* ----------------------------------- ts4script_tool_gui.py: watch mode

\* compute_tree_signature(src, patterns) of the states the workspace takes
TreeSigs == {1, 2}

\* The tool's window is open, no watcher was started
WatchInit ==
    /\ cached = Raise
    /\ configSource = 0
    /\ singleton = 0
    /\ schedules = <<>>
    /\ alarms = <<>>
    /\ timers = <<>>
    /\ pending = {}
    /\ clock = StartClock
    /\ loads = 0
    /\ cancels = <<>>
    /\ runs = <<>>
    /\ armed = {}
    /\ stopped = {}
    /\ pc = "idle"
    /\ bcfg = DefaultConfig
    /\ bsims = <<>>
    /\ env = [weather |-> <<>>, day |-> 1]
    /\ bwtype = <<>>
    /\ bsched = <<>>
    /\ bblocks = <<>>
    /\ bidx = 0
    /\ queries = [weather |-> 0, day |-> 0, errors |-> 0, calls |-> 0]
    /\ trace = <<>>
    /\ wrunning = FALSE
    /\ wthreads = <<>>
    /\ tree \in TreeSigs
    /\ dst = 0

\* App._toggle_watch on the GUI thread: Stop clears the flag and returns;
\* Start returns when the workspace does not exist, else sets the flag and
\* starts a new daemon thread running loop() (last_sig = None).
ToggleWatch ==
    /\ IF wrunning
       THEN /\ wrunning' = FALSE
            /\ UNCHANGED wthreads
       ELSE \E exists \in BOOLEAN :
               IF ~exists
               THEN UNCHANGED <<wrunning, wthreads>>
               ELSE /\ Len(wthreads) < MaxThreads
                    /\ wrunning' = TRUE
                    /\ wthreads' = Append(wthreads, [pc |-> "test", last_sig |-> 0])
    /\ UNCHANGED <<dvars, bvars, tree, dst>>

\* loop(): "while self.watch_state.running:" is evaluated by thread t
LoopTest(t) ==
    /\ wthreads[t].pc = "test"
    /\ wthreads' = [wthreads EXCEPT ![t].pc = IF wrunning THEN "body" ELSE "done"]
    /\ UNCHANGED <<dvars, bvars, wrunning, tree, dst>>

\* loop(): the try block of thread t: the signature is computed and, when it
\* differs from last_sig, the workspace is packed into dst; an exception is
\* reported and the pass ends without packing.
LoopBody(t) ==
    /\ wthreads[t].pc = "body"
    /\ \E raised \in BOOLEAN :
          IF ~raised /\ tree # wthreads[t].last_sig
          THEN /\ dst' = tree
               /\ wthreads' = [wthreads EXCEPT ![t] = [pc |-> "sleep", last_sig |-> tree]]
          ELSE /\ dst' = dst
               /\ wthreads' = [wthreads EXCEPT ![t].pc = "sleep"]
    /\ UNCHANGED <<dvars, bvars, wrunning, tree>>

\* loop(): time.sleep(interval) of thread t returns
LoopWake(t) ==
    /\ wthreads[t].pc = "sleep"
    /\ wthreads' = [wthreads EXCEPT ![t].pc = "test"]
    /\ UNCHANGED <<dvars, bvars, wrunning, tree, dst>>

\* A file of the workspace is edited
TreeChange ==
    /\ tree' \in TreeSigs \ {tree}
    /\ UNCHANGED <<dvars, bvars, wrunning, wthreads, dst>>

WatchNext ==
    \/ ToggleWatch
    \/ \E t \in 1..Len(wthreads) : LoopTest(t)
    \/ \E t \in 1..Len(wthreads) : LoopBody(t)
    \/ \E t \in 1..Len(wthreads) : LoopWake(t)
    \/ TreeChange

WatchSpec == WatchInit /\ [][WatchNext]_vars

\* ------------------------------------------------------------ properties

Handles == 1..Len(timers)

\* The handles registered by load a
HandlesOfAct(tm, a) == {h \in 1..Len(tm) : tm[h].tag.act = a}

\* The handles registered for Director d
HandlesOfOwner(tm, d) == {h \in 1..Len(tm) : tm[h].tag.owner = d}

RECURSIVE NumBlocks(_)
NumBlocks(scheds) ==
    IF scheds = <<>> THEN 0 ELSE Len(Head(scheds).blocks) + NumBlocks(Tail(scheds))

\* A step in which start_for_today returned
IsActivate == loads' = loads + 1 /\ loads' \in armed'

\* The Director is Inactive: it holds no schedule and no handle
Inactive == schedules = <<>> /\ alarms = <<>>

\* C1: Activate replaces rather than stacks: when start_for_today returns,
\* the live timer handles are exactly the 2 x (number of blocks of the
\* schedules map) handles of that activation, so no participant has live
\* alarms of two activations.
C1_ActivateReplaces ==
    [][IsActivate =>
          /\ pending' = HandlesOfAct(timers', loads')
          /\ Cardinality(pending') = 2 * NumBlocks(schedules')
          /\ \A h, g \in pending' :
                timers'[h].data[1] = timers'[g].data[1]
                    => timers'[h].tag.act = timers'[g].tag.act]_vars

\* C2: Activate -> Deactivate -> Activate: once a later activation has
\* armed its alarms, no handle of the deactivated activation is live, and the
\* cancel calls made for the deactivated activation number exactly the
\* handles it registered (one call per handle).
C2_NoHandleSurvivesReactivation ==
    \A a \in stopped : \A b \in armed :
        b > a =>
            /\ HandlesOfAct(timers, a) \cap pending = {}
            /\ \A h \in HandlesOfAct(timers, a) : cancels[h] = 1

\* Reached: an activation with handles was deactivated and a later
\* activation of the same Director holds live alarms.
C2_Witness ==
    \E a \in stopped : \E h \in HandlesOfAct(timers, a) : \E g \in pending :
        /\ timers[g].tag.act > a
        /\ timers[g].tag.owner = timers[h].tag.owner

\* C3: Deactivate drains everything: when stop_all returns, cancel has been
\* applied once more to every handle the Director had recorded (fired or
\* not), the handle list and the schedules map are empty and no timer
\* registered for the Director is pending.
C3_DeactivateDrains ==
    [][(singleton # 0 /\ stopped' # stopped) =>
          /\ alarms' = <<>>
          /\ schedules' = <<>>
          /\ \A h \in Range(alarms) : cancels'[h] = cancels[h] + 1
          /\ HandlesOfOwner(timers, singleton) \cap pending' = {}]_vars

\* Reached: a Director activated twice without a stop in between was
\* stopped when one of its handles had fired and another had not.
C3_Witness ==
    \E a, b \in stopped : \E h \in HandlesOfAct(timers, a) : \E g \in HandlesOfAct(timers, b) :
        /\ a < b
        /\ timers[h].tag.owner = timers[g].tag.owner
        /\ runs[h] # <<>> /\ cancels[h] = 1
        /\ runs[g] = <<>> /\ cancels[g] = 1
        /\ pending = {}

\* C4: Deactivate is idempotent: stop_all on an Inactive Director makes no
\* cancel call and changes neither the Director nor the host timers, and
\* stop_all twice leaves the state a single stop_all leaves.
C4_DeactivateIdempotent ==
    singleton # 0 =>
        LET once == stop_all(Self, Host)
            twice == stop_all(once.self, once.host)
        IN  /\ twice = once
            /\ Inactive => once = [self |-> Self, host |-> Host]

\* Reached: a Director that was activated, had its alarms cancelled by
\* stop_all and is still referenced, so that stop_all can be called again.
C4_Witness ==
    /\ singleton # 0
    /\ Inactive
    /\ HandlesOfOwner(timers, singleton) # {}
    /\ \A h \in HandlesOfOwner(timers, singleton) : cancels[h] = 1

\* C5: once stop_all has returned, no handler runs for any timer of the
\* deactivated activations: none of their callbacks is dispatched again.
C5_NoCallbackAfterDeactivate ==
    [][\A h \in Handles : timers[h].tag.act \in stopped => runs'[h] = runs[h]]_vars

\* Reached: a timer cancelled before it fired has still not run although a
\* timer of a later activation has fired since.
C5_Witness ==
    \E h, g \in Handles :
        /\ timers[h].tag.act \in stopped
        /\ runs[h] = <<>>
        /\ timers[g].tag.act > timers[h].tag.act
        /\ runs[g] # <<>>
        /\ timers[g].due >= timers[h].due

\* The start and the end timer of one block: same activation, Director,
\* participant and block position
SameBlock(h, g) ==
    /\ timers[h].tag = timers[g].tag
    /\ timers[h].data[1] = timers[g].data[1]

IsStart(h) == timers[h].callback = "_on_block_start"

IsEnd(h) == timers[h].callback = "_on_block_end"

\* C6: start and end events fire exactly once per block: no handler runs
\* twice, every block has one one-shot start timer and one one-shot end
\* timer of its own, and while the host keeps dispatching due timers every
\* registered timer that is not cancelled runs its handler.
C6_ExactlyOncePerBlock ==
    /\ [](\A h \in Handles :
             /\ Len(runs[h]) <= 1
             /\ ~timers[h].repeating
             /\ Cardinality({g \in Handles : SameBlock(h, g) /\ IsStart(g)}) = 1
             /\ Cardinality({g \in Handles : SameBlock(h, g) /\ IsEnd(g)}) = 1)
    /\ \A h \in 1..MaxHandles :
          (h \in pending) ~> (h \in Handles /\ (Len(runs[h]) = 1 \/ cancels[h] > 0))

\* Reached: an activation of two blocks that was never deactivated has run
\* all four handlers once.
C6_Witness ==
    \E h, g \in Handles :
        /\ timers[h].tag.act = timers[g].tag.act
        /\ timers[h].tag.idx # timers[g].tag.idx
        /\ stopped = {}
        /\ pending = {}
        /\ \A k \in Handles : Len(runs[k]) = 1

RECURSIVE FlatBlocks(_)
\* The (sim_id, block) pairs of a schedules map, in iteration order
FlatBlocks(scheds) ==
    IF scheds = <<>> THEN <<>>
    ELSE [i \in 1..Len(Head(scheds).blocks) |->
             <<Head(scheds).sim_id, Head(scheds).blocks[i]>>]
         \o FlatBlocks(Tail(scheds))

\* C7: for every block armed by Activate at clock minute nowMinute exactly
\* two one-shot timers are registered, carrying (participantId, block): Start
\* at delay max(0, startMinute - nowMinute) and End at that delay plus
\* durationMinutes; a start already past gives delay 0, and startMinute 480,
\* duration 30 at nowMinute 420 gives delays 60 and 90.
C7_AlarmDelays ==
    [][IsActivate =>
          LET fb == FlatBlocks(schedules')
              base == Len(timers)
              nowMinute == clock % 1440
          IN  /\ Len(timers') = base + 2 * Len(fb)
              /\ SubSeq(timers', 1, base) = timers
              /\ \A j \in 1..Len(fb) :
                    LET s == timers'[base + 2 * j - 1]
                        e == timers'[base + 2 * j]
                        b == fb[j][2]
                        startDelay == IF b.start_min - nowMinute > 0
                                      THEN b.start_min - nowMinute ELSE 0
                    IN  /\ s.callback = "_on_block_start" /\ e.callback = "_on_block_end"
                        /\ ~s.repeating /\ ~e.repeating
                        /\ s.data = fb[j] /\ e.data = fb[j]
                        /\ s.span = startDelay /\ s.due = clock + startDelay
                        /\ e.span = startDelay + b.duration_min
                        /\ e.due = clock + startDelay + b.duration_min
                        /\ (b.start_min <= nowMinute => s.span = 0)
                        /\ (b.start_min = 480 /\ b.duration_min = 30 /\ nowMinute = 420
                               => s.span = 60 /\ e.span = 90)]_vars

\* Reached: the block 08:00 + 30 armed at 07:00 with delays 60 and 90, and
\* a block armed after its start with start delay 0.
C7_Witness ==
    \E h, g \in Handles :
        /\ IsStart(h) /\ timers[h].data[2].start_min = 480
        /\ timers[h].data[2].duration_min = 30
        /\ timers[h].due - timers[h].span = 420
        /\ timers[h].span = 60 /\ timers[h + 1].span = 90
        /\ IsStart(g) /\ timers[g].span = 0
        /\ timers[g].data[2].start_min < (timers[g].due % 1440)

\* C8: for every block armed by Activate the Start alarm has a delay no
\* later than the End alarm of the same block, and the block's start handler
\* runs before its end handler.
C8_StartBeforeEnd ==
    \A h, g \in Handles :
        (IsStart(h) /\ IsEnd(g) /\ SameBlock(h, g)) =>
            /\ timers[h].span <= timers[g].span
            /\ (runs[g] # <<>> => runs[h] # <<>>)

\* C9: in every handler run whose agent resolves the notification comes
\* before the execution call and none after it, both in the same run:
\* post_start then execute on a Start alarm, post_end then cleanup on an End
\* alarm.
C9_NotifyBeforeExecute ==
    \A h \in Handles : \A i \in 1..Len(runs[h]) :
        LET calls == runs[h][i].calls
            note == IF IsStart(h) THEN "post_start" ELSE "post_end"
            exec == IF IsStart(h) THEN "execute" ELSE "cleanup"
        IN  runs[h][i].resolved =>
               /\ Len(calls) >= 2
               /\ calls[1] = note
               /\ calls[Len(calls)] = exec
               /\ \A k \in 1..(Len(calls) - 1) : calls[k] \in {note, "show"}

\* Reached: a Start handler and an End handler have both run with a resolved
\* agent and a notification shown.
C9_Witness ==
    \E h, g \in Handles :
        /\ IsStart(h) /\ IsEnd(g)
        /\ runs[h] # <<>> /\ runs[h][1].calls = <<"post_start", "show", "execute">>
        /\ runs[g] # <<>> /\ runs[g][1].calls = <<"post_end", "show", "cleanup">>

\* C10: a handler run whose agent cannot be resolved dispatches nothing and
\* leaves the Director's handle list and schedules map and every other
\* pending timer as they were, so the sibling alarms still fire.
C10_UnresolvedSkipsSilently ==
    [][\A h \in Handles :
          (Len(runs'[h]) = Len(runs[h]) + 1 /\ ~runs'[h][Len(runs'[h])].resolved) =>
              /\ runs'[h][Len(runs'[h])].calls = <<>>
              /\ alarms' = alarms
              /\ schedules' = schedules
              /\ singleton' = singleton
              /\ timers' = timers
              /\ cancels' = cancels
              /\ pending' = pending \ {h}]_vars

\* Reached: the Start handler of a block ran unresolved and the End alarm of
\* the same block fired afterwards, resolved.
C10_Witness ==
    \E h, g \in Handles :
        /\ IsStart(h) /\ IsEnd(g) /\ SameBlock(h, g)
        /\ runs[h] # <<>> /\ ~runs[h][1].resolved /\ runs[h][1].calls = <<>>
        /\ runs[g] # <<>> /\ runs[g][1].resolved

\* C11: every timer the Director registers is recorded for bulk
\* cancellation: every pending host timer was registered for the referenced
\* Director and its handle is in self._alarms; and when start_for_today
\* returns on an Inactive Director, self._alarms holds exactly
\* 2 x (participants x templates) distinct handles.
C11_HandlesRecorded ==
    /\ [](\A h \in pending :
             /\ timers[h].tag.owner = singleton
             /\ h \in Range(alarms))
    /\ [][(IsActivate /\ Inactive) =>
             /\ Len(alarms') = 2 * (Len(schedules') * Len(cached'.val.time_blocks))
             /\ Cardinality(Range(alarms')) = Len(alarms')
             /\ Range(alarms') = pending' \ pending]_vars

\* Reached: an Inactive Director was activated for two participants, one of
\* its timers has fired and another is still pending.
C11_Witness ==
    /\ Len(schedules) = 2
    /\ Len(alarms) = 4
    /\ \E h \in Range(alarms) : runs[h] # <<>>
    /\ \E h \in Range(alarms) : h \in pending

\* The pass of the inner loop body that handed weights to weighted_choice
Chosen == {i \in 1..Len(trace) : trace[i].asked}

Done == pc \in {"returned", "raised"}

\* C12: build_for_sims always returns, with exactly one DailySchedule per
\* requested participant, each holding one block per template, the i-th
\* block made from the i-th template.
C12_OneSchedulePerParticipant ==
    Done =>
        /\ pc = "returned"
        /\ Len(bsched) = Len(bsims)
        /\ \A i \in 1..Len(bsched) :
              /\ bsched[i].sim_id = bsims[i]
              /\ Len(bsched[i].blocks) = Len(bcfg.time_blocks)
              /\ \A j \in 1..Len(bsched[i].blocks) :
                    LET b == bsched[i].blocks[j]
                        t == bcfg.time_blocks[j]
                    IN  /\ Return(b.start_min) = time_str_to_minutes(t.start)
                        /\ b.duration_min \in t.duration_min[1]..t.duration_min[2]

\* C13: every TimeBlock a build produces has 0 <= start_min < 1440 and
\* duration_min > 0, with duration_min inside the template's [min, max].
C13_BlockRanges ==
    \A i \in 1..Len(trace) :
        trace[i].block.ok =>
            LET b == trace[i].block.val
                t == bcfg.time_blocks[trace[i].tmpl]
            IN  /\ 0 <= b.start_min /\ b.start_min < 1440
                /\ b.duration_min > 0
                /\ t.duration_min[1] <= b.duration_min
                /\ b.duration_min <= t.duration_min[2]

\* The participants for whom weighted_choice was handed an empty table
FailedSims == {trace[i].sim : i \in {k \in Chosen : trace[k].weights = <<>>}}

\* C14: a selector failure is contained per participant: when an empty
\* weight table reaches weighted_choice for a participant, the call still
\* returns, with a schedule for every other requested participant and none
\* for the failed one.
C14_FailureContained ==
    (Done /\ FailedSims # {}) =>
        /\ pc = "returned"
        /\ {bsched[i].sim_id : i \in 1..Len(bsched)} = Range(bsims) \ FailedSims

\* C15: the selector fails whenever the template's action table
\* (baseWeights) is empty, whichever bias layers apply, and no action is
\* returned.
C15_EmptyBaseFails ==
    \A i \in Chosen :
        bcfg.time_blocks[trace[i].tmpl].actions = <<>> => ~trace[i].block.ok

\* The keys of a weight table, and those of strictly positive weight
Keys(w) == {w[i][1] : i \in 1..Len(w)}

PositiveKeys(w) == {w[i][1] : i \in {k \in 1..Len(w) : w[k][2] > 0}}

\* C16: when the biased weight table has a strictly positive entry,
\* weighted_choice returns a value for every draw r of [0, total], the value
\* is a key of strictly positive weight, and every such key is returned for
\* some draw.
C16_PositiveChoice ==
    \A i \in Chosen :
        LET w == trace[i].weights
        IN  PositiveKeys(w) # {} =>
               /\ weighted_choice(w) = {Return(k) : k \in PositiveKeys(w)}
               /\ trace[i].block.ok
               /\ trace[i].block.val.action \in PositiveKeys(w)

\* Reached: from a table with two positive keys, a key of weight 0 and the
\* positive keys not first, the last positive key was chosen.
C16_Witness ==
    \E i \in Chosen :
        LET w == trace[i].weights
        IN  /\ Cardinality(PositiveKeys(w)) = 2
            /\ w[1][2] = 0
            /\ trace[i].block.ok
            /\ trace[i].block.val.action = w[Len(w)][1]

\* C17: when the biased weight table is non-empty and every weight is <= 0,
\* weighted_choice returns a key of the table, and every key of the table
\* is a possible result.
C17_FallbackAllKeys ==
    \A i \in Chosen :
        LET w == trace[i].weights
        IN  (w # <<>> /\ PositiveKeys(w) = {}) =>
               /\ weighted_choice(w) = {Return(k) : k \in Keys(w)}
               /\ trace[i].block.ok
               /\ trace[i].block.val.action \in Keys(w)

\* Reached: every weight was <= 0, and both the key of negative weight and
\* the key that is not the first one of the table were chosen.
C17_Witness ==
    \E i \in Chosen :
        LET w == trace[i].weights
        IN  /\ Len(w) = 2
            /\ PositiveKeys(w) = {}
            /\ w[1][2] < 0
            /\ trace[i].block.ok
            /\ trace[i].block.val.action = w[2][1]
            /\ \E j \in Chosen :
                  /\ trace[j].weights = w
                  /\ trace[j].block.ok
                  /\ trace[j].block.val.action = w[1][1]

\* The bias tables that apply to a pass: the table of each trait the
\* participant has, the table of the mapped weather category, and the
\* weekend table when weekendLayer.
Layers(c, sim, wtype, weekendLayer) ==
    {c.trait_bias[k][2] : k \in {n \in 1..Len(c.trait_bias) :
                                     c.trait_bias[n][1] \in TraitsOf(sim)}}
    \cup {c.weather_bias[k][2] : k \in {n \in 1..Len(c.weather_bias) :
                                     /\ wtype # <<>>
                                     /\ c.weather_bias[n][1] = WeatherKey(wtype)}}
    \cup (IF weekendLayer THEN {c.weekend_bias} ELSE {})

RECURSIVE SumOver(_, _)
SumOver(tables, a) ==
    IF tables = {} THEN 0
    ELSE LET t == CHOOSE x \in tables : TRUE
         IN  DictGet(t, a, 0) + SumOver(tables \ {t}, a)

\* C18: bias application is additive: the table handed to weighted_choice
\* holds exactly the actions of the template and of the applicable layers,
\* each with the base weight (0 if absent) plus the sum of the deltas of the
\* applicable layers.
C18_AdditiveBias ==
    \A i \in Chosen :
        LET r == trace[i]
            base == bcfg.time_blocks[r.tmpl].actions
            layers == Layers(bcfg, r.sim, r.wtype, r.weekend)
        IN  /\ Keys(r.weights) = Keys(base) \cup UNION {Keys(t) : t \in layers}
            /\ \A a \in Keys(r.weights) :
                  DictGet(r.weights, a, 0) = DictGet(base, a, 0) + SumOver(layers, a)

\* Reached: base {JOG: 1, WALK: 1} with the trait table ACTIVE {JOG: +5} gave
\* JOG 6 and WALK 1 for the ACTIVE participant; and a pass in which an action
\* missing from the base was inserted with its (negative) delta as weight.
C18_Witness ==
    /\ \E i \in Chosen :
          /\ TraitsOf(trace[i].sim) = {"ACTIVE"}
          /\ trace[i].weights = << <<"JOG", 6>>, <<"WALK", 1>> >>
    /\ \E i \in Chosen :
          /\ ~DictHas(bcfg.time_blocks[trace[i].tmpl].actions, "JOG")
          /\ DictGet(trace[i].weights, "JOG", 0) = -6

\* C19: the weekend table is applied exactly when the time service reports
\* a weekend day: on another day the table handed to weighted_choice is the
\* trait- and weather-biased one, on a weekend day it is that table plus the
\* weekend deltas; and when that leaves a single action of positive weight,
\* that action is the one of the block.
C19_WeekendIff ==
    \A i \in Chosen :
        LET r == trace[i]
            t == bcfg.time_blocks[r.tmpl]
            plain == apply_weather_bias(bcfg, r.wtype,
                                        apply_trait_bias(bcfg, r.sim, t.actions))
        IN  /\ r.day \notin {6, 7} => r.weights = plain
            /\ r.day \in {6, 7} =>
                  /\ r.weights = AddDeltas(plain, bcfg.weekend_bias)
                  /\ \A a \in Keys(r.weights) :
                        PositiveKeys(r.weights) = {a} =>
                            r.block.ok /\ r.block.val.action = a

\* Reached: a call returned in which every block of two participants was
\* built on a weekend day, the weekend table left one positive action in
\* each pass, and a block was built from a table that had two positive
\* actions before the weekend deltas.
C19_Witness ==
    /\ pc = "returned"
    /\ Len(bsims) = 2
    /\ Len(trace) = 4
    /\ \A i \in Chosen :
          /\ trace[i].day = 6
          /\ Cardinality(PositiveKeys(trace[i].weights)) = 1
    /\ \E i \in Chosen :
          Cardinality(PositiveKeys(
              apply_weather_bias(bcfg, trace[i].wtype,
                  apply_trait_bias(bcfg, trace[i].sim,
                      bcfg.time_blocks[trace[i].tmpl].actions)))) >= 2

\* C20: within one call the weather and the day type are each queried once,
\* so all the blocks of the call were biased with one weather signal and one
\* weekend signal.
C20_QueriedOnce ==
    pc = "returned" =>
        /\ queries.weather = 1
        /\ queries.day = 1
        /\ \A i, j \in Chosen :
              /\ trace[i].wtype = trace[j].wtype
              /\ trace[i].weekend = trace[j].weekend

\* C21: bias layers degrade gracefully: a weather query without data leaves
\* the weather layer out, and a call in which a trait or weather lookup
\* raised still returns, with the full schedule of every participant.
C21_LookupsDegrade ==
    /\ \A i \in Chosen :
          trace[i].wtype = <<>> =>
              trace[i].weights =
                  LET w == apply_trait_bias(bcfg, trace[i].sim,
                                            bcfg.time_blocks[trace[i].tmpl].actions)
                  IN  IF trace[i].weekend THEN apply_weekend_bias(bcfg, w) ELSE w
    /\ (/\ Done
        /\ queries.errors > 0
        /\ \A j \in 1..Len(bcfg.time_blocks) : bcfg.time_blocks[j].actions # <<>>) =>
          /\ pc = "returned"
          /\ Len(bsched) = Len(bsims)
          /\ \A i \in 1..Len(bsched) : Len(bsched[i].blocks) = Len(bcfg.time_blocks)

\* C22: schedule building never mutates the configuration: no step of a
\* build changes a template's action table or the trait, weather or weekend
\* bias table, in the first call or in a later one, and every pass starts
\* from the action table the config was loaded with.
C22_ConfigUnchanged ==
    /\ [][bcfg' = bcfg]_vars
    /\ [](bcfg \in BuildConfigs)

\* Reached: a second call with the same config has returned after passes
\* that biased the weights of two participants, one pass with a table that
\* differs from the template's.
C22_Witness ==
    /\ queries.calls = 2
    /\ pc = "returned"
    /\ Len(bsims) = 2
    /\ \E i \in Chosen : trace[i].weights # bcfg.time_blocks[trace[i].tmpl].actions

\* C23: at most one Director holds live alarms: the pending timers all
\* belong to the referenced Director (none is pending when there is no
\* reference); a zone load while a Director is referenced keeps the
\* reference and arms its timers for that Director; a zone unload clears the
\* reference and leaves no timer pending; the load after it references the
\* Director it constructed.
C23_OneLiveDirector ==
    /\ [](/\ Cardinality({timers[h].tag.owner : h \in pending}) <= 1
          /\ singleton = 0 => pending = {})
    /\ [][loads' = loads + 1 =>
             /\ singleton' = (IF singleton # 0 THEN singleton ELSE loads')
             /\ \A h \in (Len(timers) + 1)..Len(timers') :
                   timers'[h].tag.owner = singleton']_vars
    /\ [][(singleton # 0 /\ singleton' # singleton) =>
             (singleton' = 0 /\ pending' = {})]_vars

\* Reached: the Director of the first load holds live alarms armed by the
\* second load (the second instance was discarded).
C23_Witness ==
    /\ loads = 2
    /\ singleton = 1
    /\ \E h \in pending : timers[h].tag.act = 2 /\ timers[h].tag.owner = 1

\* C24: config loading is load-once: once NLConfig._cached is set it never
\* changes, and every later load returns it whatever source is on disk;
\* a first load that finds no source gives the built-in default (no time
\* blocks, 8 participants, notifications enabled).
C24_LoadOnce ==
    /\ [][cached.ok => cached' = cached]_vars
    /\ [](cached.ok => \A s \in ConfigSources : load(cached, s) = cached.val)
    /\ [][(~cached.ok /\ cached'.ok /\ configSource = 0) =>
             /\ cached'.val.time_blocks = <<>>
             /\ cached'.val.participant_count = 8
             /\ cached'.val.news_enabled]_vars

\* Reached: two loads were made, the cached config is the built-in default
\* of the first one, and a config.json with a time block is on disk.
C24_Witness ==
    /\ loads = 2
    /\ cached.ok
    /\ cached.val.time_blocks = <<>>
    /\ cached.val.participant_count = 8
    /\ configSource # 0
    /\ ConfigFiles[configSource].time_blocks # <<>>

\* C25: a handle is discarded from self._alarms when its alarm fires: the
\* list holds only handles of alarms that have not fired.
C25_FiredDiscarded ==
    \A h \in Range(alarms) : runs[h] = <<>>

\* C26: a failed Activate arms nothing: when the build raises during
\* start_for_today, no timer is registered and none is cancelled, and the
\* referenced Director's handle list and schedules map are what they were
\* before the call (empty for a Director constructed by this load).
C26_FailedActivateArmsNothing ==
    [][(loads' = loads + 1 /\ loads' \notin armed') =>
          /\ timers' = timers
          /\ pending' = pending
          /\ cancels' = cancels
          /\ schedules' = (IF singleton # 0 THEN schedules ELSE <<>>)
          /\ alarms' = (IF singleton # 0 THEN alarms ELSE <<>>)]_vars

\* Reached: the second load's start_for_today raised on a Director that
\* holds the schedules and the live alarms of the first load.
C26_Witness ==
    /\ loads = 2
    /\ armed = {1}
    /\ singleton = 1
    /\ schedules # <<>>
    /\ Range(alarms) = HandlesOfAct(timers, 1)
    /\ pending # {}

\* C27: at most one watcher loop is packing at any time: no two threads are
\* inside the loop body together, and a thread that was started before the
\* last Start (its watch was stopped) never enters the loop body again.
C27_OneWatcherPacking ==
    /\ Cardinality({t \in 1..Len(wthreads) : wthreads[t].pc = "body"}) <= 1
    /\ \A t \in 1..(Len(wthreads) - 1) : wthreads[t].pc \notin {"body"}

====
